---- MODULE Spec2Model ----
(***************************************************************************)
(* Model of InstaOsint (src/InstaOsint.py): the InstagramOSINT session,    *)
(* its rate-limited fetcher, the embedded-data extractor, the profile and  *)
(* post projectors, the signal extractors, the artifact writers and the    *)
(* report assembler.                                                       *)
(*                                                                         *)
(* Time is counted in tenths of a second.  Python values that may be None  *)
(* are tagged records (None, PyInt(n), PyStr(s), PyBool(b)); dicts are     *)
(* functions over their keys and lists are sequences.                      *)
(***************************************************************************)
EXTENDS Integers, Sequences, FiniteSets, Bags, TLC

VARIABLES
  request_count,      \* self.request_count
  last_request_time,  \* self.last_request_time
  downloaded_files,   \* self.downloaded_files, the session's manifest
  clock,              \* time.time()
  pc,                 \* position of the running safe_request call
  url,                \* its url argument
  script,             \* what the server answers to its successive dispatches
  trace,              \* the answers received so far by the call
  naps,               \* the time.sleep calls taken so far by the call
  depth,              \* number of nested safe_request frames
  entry_count,        \* request_count when the call was entered
  result,             \* what the call returned
  written,            \* the files written by the latest operation, in order
  ret                 \* the outcome of the latest operation

vars == <<request_count, last_request_time, downloaded_files, clock, pc, url,
          script, trace, naps, depth, entry_count, result, written, ret>>

session == <<request_count, last_request_time, clock>>
frame == <<pc, url, script, trace, naps, depth, entry_count, result>>

----------------------------------------------------------------------------
(* Bounds *)

MaxRetries == 2       \* retryable answers the server gives to one call
MaxRequests == 2      \* dispatches of a session
MaxLatency == 40      \* longest time a dispatch takes, in 0.1 s
StartClock == 1000    \* time.time() when the session is constructed
MaxEdges == 7         \* media edges of a page
MaxLimit == 8         \* the limit argument of an operation
MaxSessionRequests == 2   \* dispatches after which no operation is started
MaxCaption == 4       \* characters of a caption

----------------------------------------------------------------------------
(* Python values *)

None == [t |-> "None"]
PyInt(n) == [t |-> "int", v |-> n]
PyStr(s) == [t |-> "str", v |-> s]
PyBool(b) == [t |-> "bool", v |-> b]
EmptyDict == [k \in {} |-> None]

\* dict.get(key, default)
Get(d, k, default) == IF k \in DOMAIN d THEN d[k] ELSE default

Min(a, b) == IF a < b THEN a ELSE b
Max(a, b) == IF a < b THEN b ELSE a

RECURSIVE SeqSum(_)
SeqSum(s) == IF s = <<>> THEN 0 ELSE s[1] + SeqSum(Tail(s))

\* name = value, then the rest of the body: the value is computed once, where
\* the statement stands, and the rest uses it by name.
With(value, Rest(_)) == Rest(value)

SelectCount(s, Test(_)) == Cardinality({i \in 1..Len(s) : Test(s[i])})

----------------------------------------------------------------------------
(* The rate-limited fetcher *)

rate_limit_delay == 30   \* self.rate_limit_delay = 3 (seconds)
Cooldown429 == 600       \* time.sleep(60)
Cooldown5xx == 100       \* time.sleep(10)
JitterMin == 1           \* random.uniform(0.1, 0.5)
JitterMax == 5

Jitters == {JitterMin, JitterMax}
Latencies == {0, MaxLatency}

\* What session.request gives: a response, or a RequestException.
Response(status, content) == [status_code |-> status, content |-> content]
RequestException == [exc |-> "RequestException"]
IsResponse(o) == "status_code" \in DOMAIN o
HasStatus(o, s) == IsResponse(o) /\ o.status_code = s

\* rate_limit, never suspending.
SleepTime_NoWait(now, last, jitter) == 0

\* rate_limit: the time slept before a dispatch made at time now.
SleepTime(now, last, jitter) ==
  IF now - last < rate_limit_delay
  THEN (rate_limit_delay - (now - last)) + jitter
  ELSE 0

\* Classify, with 404 handled as the server errors are.
Classify_NotFoundRetried(o) ==
  IF ~IsResponse(o) THEN "except"
  ELSE IF o.status_code = 429 THEN "retry429"
  ELSE IF o.status_code >= 500 \/ o.status_code = 404 THEN "retry5xx"
  ELSE "return"

\* The branch safe_request takes on an outcome of session.request.
Classify(o) ==
  IF ~IsResponse(o) THEN "except"
  ELSE IF o.status_code = 429 THEN "retry429"
  ELSE IF o.status_code = 404 THEN "notfound"
  ELSE IF o.status_code >= 500 THEN "retry5xx"
  ELSE "return"

Nap(why, dur) == [why |-> why, dur |-> dur]

RetryStatuses == {429, 503}
FinalStatuses == {200, 403, 404}
Contents == {"body"}

FinalOutcomes ==
  {Response(s, c) : s \in FinalStatuses, c \in Contents} \cup {RequestException}
RetryOutcomes == {Response(s, "busy") : s \in RetryStatuses}

\* The server's answers to one call: retryable ones, then a final one.
Scripts ==
  UNION {{r \o <<f>> : r \in [1..k -> RetryOutcomes], f \in FinalOutcomes}
         : k \in 0..MaxRetries}

Urls == {"profile", "media"}

\* self.safe_request(url) is entered.
Call(u, s) ==
  /\ pc = "idle"
  /\ request_count < MaxRequests
  /\ pc' = "rate_limit"
  /\ url' = u
  /\ script' = s
  /\ trace' = <<>>
  /\ naps' = <<>>
  /\ depth' = 1
  /\ entry_count' = request_count
  /\ result' = None
  /\ UNCHANGED <<session, downloaded_files, written, ret>>

\* self.rate_limit()
rate_limit(jitter) ==
  /\ pc = "rate_limit"
  /\ LET slept == SleepTime(clock, last_request_time, jitter)
     IN /\ clock' = clock + slept
        /\ last_request_time' = clock + slept
        /\ naps' = IF slept > 0 THEN Append(naps, Nap("rate_limit", slept))
                   ELSE naps
  /\ request_count' = request_count + 1
  /\ pc' = "request"
  /\ UNCHANGED <<downloaded_files, url, script, trace, depth, entry_count,
                 result, written, ret>>

\* request, giving up on a retryable answer met after the first retry.
request_Capped(latency) ==
  /\ pc = "request"
  /\ Len(trace) < Len(script)
  /\ LET o == script[Len(trace) + 1]
         branch == Classify(o)
     IN /\ trace' = Append(trace, o)
        /\ clock' = clock + latency
        /\ pc' = CASE depth >= 2 -> "return"
                   [] branch = "retry429" -> "sleep429"
                   [] branch = "retry5xx" -> "sleep5xx"
                   [] OTHER -> "return"
        /\ result' = IF branch = "return" THEN o ELSE None
  /\ UNCHANGED <<request_count, last_request_time, downloaded_files, url,
                 script, naps, depth, entry_count, written, ret>>

\* self.session.request(method, url, timeout=30) and the branch on its outcome
request(latency) ==
  /\ pc = "request"
  /\ Len(trace) < Len(script)
  /\ LET o == script[Len(trace) + 1]
         branch == Classify(o)
     IN /\ trace' = Append(trace, o)
        /\ clock' = clock + latency
        /\ pc' = CASE branch = "retry429" -> "sleep429"
                   [] branch = "retry5xx" -> "sleep5xx"
                   [] OTHER -> "return"
        /\ result' = IF branch = "return" THEN o ELSE None
  /\ UNCHANGED <<request_count, last_request_time, downloaded_files, url,
                 script, naps, depth, entry_count, written, ret>>

\* retry429, retrying at once without the cooldown.
retry429_NoSleep ==
  /\ pc = "sleep429"
  /\ depth' = depth + 1
  /\ pc' = "rate_limit"
  /\ UNCHANGED <<session, downloaded_files, url, script, trace, naps,
                 entry_count, result, written, ret>>

\* time.sleep(60); return self.safe_request(url, method, **kwargs)
retry429 ==
  /\ pc = "sleep429"
  /\ clock' = clock + Cooldown429
  /\ naps' = Append(naps, Nap("429", Cooldown429))
  /\ depth' = depth + 1
  /\ pc' = "rate_limit"
  /\ UNCHANGED <<request_count, last_request_time, downloaded_files, url,
                 script, trace, entry_count, result, written, ret>>

\* retry5xx, dispatching again without passing through rate_limit.
retry5xx_NoRateLimit ==
  /\ pc = "sleep5xx"
  /\ clock' = clock + Cooldown5xx
  /\ naps' = Append(naps, Nap("5xx", Cooldown5xx))
  /\ depth' = depth + 1
  /\ pc' = "request"
  /\ UNCHANGED <<request_count, last_request_time, downloaded_files, url,
                 script, trace, entry_count, result, written, ret>>

\* time.sleep(10); return self.safe_request(url, method, **kwargs)
retry5xx ==
  /\ pc = "sleep5xx"
  /\ clock' = clock + Cooldown5xx
  /\ naps' = Append(naps, Nap("5xx", Cooldown5xx))
  /\ depth' = depth + 1
  /\ pc' = "rate_limit"
  /\ UNCHANGED <<request_count, last_request_time, downloaded_files, url,
                 script, trace, entry_count, result, written, ret>>

\* the result is returned through every nested frame to the caller
Return ==
  /\ pc = "return"
  /\ pc' = "idle"
  /\ depth' = 0
  /\ UNCHANGED <<session, downloaded_files, url, script, trace, naps,
                 entry_count, result, written, ret>>

NoOp == [op |-> "none"]

\* InstagramOSINT.__init__
Init ==
  /\ request_count = 0
  /\ last_request_time = 0
  /\ downloaded_files = <<>>
  /\ clock = StartClock
  /\ pc = "idle"
  /\ url = "profile"
  /\ script = <<>>
  /\ trace = <<>>
  /\ naps = <<>>
  /\ depth = 0
  /\ entry_count = 0
  /\ result = None
  /\ written = <<>>
  /\ ret = NoOp

FetchStep ==
  \/ \E j \in Jitters : rate_limit(j)
  \/ \E l \in Latencies : request(l)
  \/ retry429
  \/ retry5xx
  \/ Return

FetchNext ==
  \/ \E u \in Urls, s \in Scripts : Call(u, s)
  \/ FetchStep

\* One safe_request call after another, step by step.
FetchSpec == Init /\ [][FetchNext]_vars

\* The interpreter keeps running the call and every dispatch ends (timeout=30).
FairFetchSpec == FetchSpec /\ WF_vars(FetchStep)

\* The first answers of a server that answers every dispatch with a 429 or a
\* server error: the call is followed for as long as the answers are given.
BusyScripts == [1..(MaxRetries + 1) -> RetryOutcomes]

RetryNext ==
  \/ \E u \in Urls, s \in Scripts \cup BusyScripts : Call(u, s)
  \/ FetchStep

\* The calls of a session whose server may never give a final answer.
RetrySpec == Init /\ [][RetryNext]_vars /\ WF_vars(FetchStep)

----------------------------------------------------------------------------
(* An operation of the session, run to its end.  The session state is      *)
(* threaded through the calls the operation makes; every call gives the    *)
(* state it leaves and either a value or the exception it raises.          *)

Session ==
  [clock |-> clock, last |-> last_request_time, count |-> request_count,
   files |-> downloaded_files, written |-> <<>>, downloaded |-> <<>>]

Ok(st, v) == [st |-> st, exc |-> "none", value |-> v]
Raise(st, e) == [st |-> st, exc |-> e, value |-> None]

\* time.sleep(d)
Sleep(st, d) == [st EXCEPT !.clock = @ + d]

\* self.safe_request(url): s are the server's answers, env the jitter drawn by
\* rate_limit and the time each dispatch takes.
RECURSIVE safe_request(_, _, _)
safe_request(st, s, env) ==
  LET sent == st.clock + SleepTime(st.clock, st.last, env.jitter)
      o == s[1]
      branch == Classify(o)
      st1 == [st EXCEPT !.clock = sent + env.latency, !.last = sent,
                        !.count = @ + 1]
  IN CASE branch = "retry429" -> safe_request(Sleep(st1, Cooldown429), Tail(s), env)
       [] branch = "retry5xx" -> safe_request(Sleep(st1, Cooldown5xx), Tail(s), env)
       [] branch = "return" -> Ok(st1, o)
       [] OTHER -> Ok(st1, None)

\* bool(response): None is false, and a Response is true when it is ok
\* (status below 400).
ResponseTruthy(o) == o # None /\ o.status_code < 400

\* datetime.datetime.now().strftime("%Y%m%d_%H%M%S"): whole seconds
strftime(now) == [fmt |-> "%Y%m%d_%H%M%S", sec |-> now \div 10]
\* datetime.datetime.now().isoformat()
isoformat(now) == [fmt |-> "ISO-8601", at |-> now]

File(path, data) == [path |-> path, data |-> data]

\* The account the session is run on.
Target == "target"

\* A path under self.base_dir: the folders it goes through and the file name.
Path(dirs, name) == [dirs |-> dirs, name |-> name]

\* save_json_data, forgetting the manifest.
save_json_data_NoAppend(st, data, data_type) ==
  LET filepath == Path(<<"data">>, [target |-> Target, kind |-> data_type,
                                    stamp |-> strftime(st.clock), ext |-> "json"])
  IN Ok([st EXCEPT !.written = Append(@, File(filepath, data))], filepath)

save_json_data(st, data, data_type) ==
  LET filepath == Path(<<"data">>, [target |-> Target, kind |-> data_type,
                                    stamp |-> strftime(st.clock), ext |-> "json"])
  IN Ok([st EXCEPT !.written = Append(@, File(filepath, data)),
                   !.files = Append(@, filepath)], filepath)

save_report(st, content, report_type) ==
  LET filepath == Path(<<"reports">>, [target |-> Target, kind |-> report_type,
                                       stamp |-> strftime(st.clock), ext |-> "txt"])
  IN Ok([st EXCEPT !.written = Append(@, File(filepath, content)),
                   !.files = Append(@, filepath)], filepath)

----------------------------------------------------------------------------
(* The embedded-data extractor *)

\* A page body: whether the window._sharedData marker is found in it, and
\* whether the captured span parses as JSON, to which blob.
NoMarker == [marker |-> FALSE]
BadJson == [marker |-> TRUE, parses |-> FALSE]
Page(blob) == [marker |-> TRUE, parses |-> TRUE, blob |-> blob]

get_shared_data(st, s, env) ==
  With(safe_request(st, s, env), LAMBDA r :
    LET response == r.value
    IN IF ~ResponseTruthy(response) THEN Ok(r.st, None)
       ELSE IF response.content.marker /\ response.content.parses
            THEN Ok(r.st, response.content.blob)
            ELSE Ok(r.st, None))

\* `not shared_data`: None and the empty dict
Falsy(shared_data) == shared_data = None \/ DOMAIN shared_data = {}

\* shared_data['entry_data']['ProfilePage'][0]['graphql']['user']
Navigate(shared_data) ==
  IF "entry_data" \notin DOMAIN shared_data THEN [exc |-> "KeyError"]
  ELSE LET entry_data == shared_data["entry_data"]
       IN IF "ProfilePage" \notin DOMAIN entry_data THEN [exc |-> "KeyError"]
          ELSE LET pages == entry_data["ProfilePage"]
               IN IF Len(pages) = 0 THEN [exc |-> "IndexError"]
                  ELSE IF "graphql" \notin DOMAIN pages[1] THEN [exc |-> "KeyError"]
                  ELSE IF "user" \notin DOMAIN pages[1]["graphql"]
                       THEN [exc |-> "KeyError"]
                       ELSE [exc |-> "none", user |-> pages[1]["graphql"]["user"]]

----------------------------------------------------------------------------
(* The profile projector *)

ErrorMarker(text) == [error |-> text]

ProfileFields ==
  {"username", "full_name", "biography", "followers", "following", "posts",
   "is_private", "is_verified", "profile_pic_url", "external_url",
   "is_business_account", "category_name", "timestamp"}

Count(user, edge) == Get(Get(user, edge, EmptyDict), "count", None)

get_profile_info(st, s, env) ==
  With(get_shared_data(st, s, env), LAMBDA sd :
  With(Navigate(sd.value), LAMBDA nav :
    LET user == nav.user
        profile_info ==
          [username |-> Get(user, "username", None),
           full_name |-> Get(user, "full_name", None),
           biography |-> Get(user, "biography", None),
           followers |-> Count(user, "edge_followed_by"),
           following |-> Count(user, "edge_follow"),
           posts |-> Count(user, "edge_owner_to_timeline_media"),
           is_private |-> Get(user, "is_private", None),
           is_verified |-> Get(user, "is_verified", None),
           profile_pic_url |-> Get(user, "profile_pic_url_hd", None),
           external_url |-> Get(user, "external_url", None),
           is_business_account |-> Get(user, "is_business_account", None),
           category_name |-> Get(user, "category_name", None),
           timestamp |-> isoformat(sd.st.clock)]
    IN IF Falsy(sd.value) THEN Ok(sd.st, ErrorMarker("Failed to fetch profile data"))
       ELSE IF nav.exc = "KeyError" THEN Ok(sd.st, ErrorMarker("Unexpected data format"))
       ELSE IF nav.exc # "none" THEN Raise(sd.st, nav.exc)
       ELSE Ok(save_json_data(sd.st, profile_info, "profile").st, profile_info)))

----------------------------------------------------------------------------
(* The signal extractors and the post projector *)

\* A text scanned by characters is a sequence of one-character strings.
WordChars == {"a", "A", "b", "B"}   \* the characters of the texts that \w matches

\* The last index of the longest run of word characters starting at i (i - 1
\* when there is none).
RECURSIVE WordEnd(_, _)
WordEnd(text, i) ==
  IF i <= Len(text) /\ text[i] \in WordChars THEN WordEnd(text, i + 1) ELSE i - 1

\* re.findall(r'#\w+', text) for prefix "#", re.findall(r'@\w+', text) for "@":
\* the matches found scanning from i, left to right, without overlap.
RECURSIVE findall(_, _, _)
findall(prefix, text, i) ==
  IF i > Len(text) THEN <<>>
  ELSE IF text[i] = prefix /\ WordEnd(text, i + 1) > i
       THEN <<SubSeq(text, i, WordEnd(text, i + 1))>>
              \o findall(prefix, text, WordEnd(text, i + 1) + 1)
       ELSE findall(prefix, text, i + 1)

Range(xs) == {xs[i] : i \in 1..Len(xs)}

\* A list whose order is not determined is the bag of its elements.
Unordered(xs) ==
  [x \in Range(xs) |-> Cardinality({i \in 1..Len(xs) : xs[i] = x})]

\* list(xs), without the set.
ListSet_Duplicates(xs) == Unordered(xs)

\* list(set(xs)): each element once, in an order that is not determined
ListSet(xs) == SetToBag(Range(xs))

\* the elements of several lists, as hashtags.extend(...) collects them
RECURSIVE Extend(_)
Extend(lists) == IF lists = <<>> THEN <<>> ELSE lists[1] \o Extend(Tail(lists))

\* A biography is a sequence of words; these are the words of the texts that
\* the e-mail pattern of extract_emails_from_bio matches.
EmailWords == {"a@b.co", "x@y.org"}
IsEmail(w) == w \in EmailWords

\* posts, without the truncation to limit.
Slice_Untruncated(xs, limit) == xs

\* posts[:limit]
Slice(xs, limit) ==
  IF limit >= 0 THEN SubSeq(xs, 1, Min(limit, Len(xs)))
  ELSE SubSeq(xs, 1, Max(Len(xs) + limit, 0))

post_info(post) ==
  LET node == Get(post, "node", EmptyDict)
      caption_edges == Get(Get(node, "edge_media_to_caption", EmptyDict), "edges", <<>>)
      caption == IF caption_edges # <<>>
                 THEN Get(Get(caption_edges[1], "node", EmptyDict), "text", <<>>)
                 ELSE <<>>
  IN [id |-> Get(node, "id", None),
      shortcode |-> Get(node, "shortcode", None),
      timestamp |-> Get(node, "taken_at_timestamp", None),
      is_video |-> Get(node, "is_video", None),
      display_url |-> Get(node, "display_url", None),
      caption |-> caption,
      comments |-> Get(Get(node, "edge_media_to_comment", EmptyDict), "count", PyInt(0)),
      likes |-> Get(Get(node, "edge_liked_by", EmptyDict), "count", PyInt(0)),
      hashtags |-> findall("#", caption, 1),
      mentions |-> findall("@", caption, 1),
      dimensions |-> Get(node, "dimensions", EmptyDict)]

get_recent_posts(st, s, env, limit) ==
  With(get_shared_data(st, s, env), LAMBDA sd :
  With(Navigate(sd.value), LAMBDA nav :
    LET posts == Get(Get(nav.user, "edge_owner_to_timeline_media", EmptyDict),
                     "edges", <<>>)
        taken == Slice(posts, limit)
        post_data == [i \in 1..Len(taken) |-> post_info(taken[i])]
    IN IF Falsy(sd.value) THEN Ok(sd.st, <<>>)
       ELSE IF nav.exc = "KeyError" THEN Ok(sd.st, <<>>)
       ELSE IF nav.exc # "none" THEN Raise(sd.st, nav.exc)
       ELSE With(post_data, LAMBDA saved :
              Ok(save_json_data(sd.st, [posts |-> saved], "posts").st, saved))))

extract_emails_from_bio(st, s, env) ==
  With(get_profile_info(st, s, env), LAMBDA p :
    LET bio == Get(p.value, "biography", PyStr(<<>>))
        emails == SelectSeq(bio.v, IsEmail)
        email_data == [target |-> Target, emails_found |-> emails,
                       timestamp |-> isoformat(p.st.clock)]
    IN IF p.exc # "none" THEN p
       ELSE IF bio = None THEN Raise(p.st, "TypeError")
       ELSE IF emails # <<>>
            THEN Ok(save_json_data(p.st, email_data, "emails").st, ListSet(emails))
            ELSE Ok(p.st, ListSet(emails)))

get_hashtags_used(st, s, env, limit) ==
  With(get_recent_posts(st, s, env, limit), LAMBDA r :
    LET posts == r.value
    IN IF r.exc # "none" THEN r
       ELSE Ok(r.st, ListSet(Extend([i \in 1..Len(posts) |-> posts[i].hashtags]))))

get_mentions_used(st, s, env, limit) ==
  With(get_recent_posts(st, s, env, limit), LAMBDA r :
    LET posts == r.value
    IN IF r.exc # "none" THEN r
       ELSE Ok(r.st, ListSet(Extend([i \in 1..Len(posts) |-> posts[i].mentions]))))

----------------------------------------------------------------------------
(* The report assembler *)

TruthyBool(x) == x # None /\ x.v
TruthyStr(x) == x # None /\ x.v # ""
TruthyText(x) == x # None /\ x.v # <<>>
YesNo(x) == IF TruthyBool(x) THEN "Yes" ELSE "No"

\* f"{n:,}"
Commas(n) == [digits |-> n, grouping |-> ","]

InFolder(path, folder) == folder \in Range(path.dirs)

get_downloaded_files_section(files) ==
  IF files = <<>> THEN [none |-> "No files downloaded yet"]
  ELSE [reports |-> SelectSeq(files, LAMBDA f : InFolder(f, "reports")),
        data_files |-> SelectSeq(files, LAMBDA f : InFolder(f, "data")),
        downloads |-> SelectSeq(files, LAMBDA f : InFolder(f, "downloads")),
        total |-> Len(files)]

\* the counters a renderer formats with f"{profile.get(key, 0):,}"
Counters(profile) ==
  [k \in {"followers", "following", "posts"} |-> Get(profile, k, PyInt(0))]

posts_analysis(posts) ==
  LET total_likes == SeqSum([i \in 1..Len(posts) |-> posts[i].likes.v])
      total_comments == SeqSum([i \in 1..Len(posts) |-> posts[i].comments.v])
  IN IF posts # <<>>
     THEN [analyzed |-> Len(posts),
           total_likes |-> Commas(total_likes),
           total_comments |-> Commas(total_comments),
           avg_likes |-> Commas(total_likes \div Len(posts))]
     ELSE [none |-> "No posts found or account is private"]

generate_report(st, s1, s2, s3, env) ==
  With(get_profile_info(st, s1, env), LAMBDA p :
    LET profile == p.value
        failed == "error" \in DOMAIN profile
        counters == Counters(profile)
        unset == \E k \in DOMAIN counters : counters[k] = None
        profile_section ==
          IF failed THEN [error |-> profile.error]
          ELSE [Username |-> profile.username,
                FullName |-> profile.full_name,
                Followers |-> Commas(counters["followers"].v),
                Following |-> Commas(counters["following"].v),
                Posts |-> Commas(counters["posts"].v),
                Private |-> YesNo(profile.is_private),
                Verified |-> YesNo(profile.is_verified),
                Business |-> YesNo(profile.is_business_account),
                Category |-> IF TruthyStr(profile.category_name)
                             THEN profile.category_name ELSE PyStr("Personal"),
                Bio |-> IF TruthyText(profile.biography)
                        THEN profile.biography ELSE None]
    IN IF p.exc # "none" THEN p
       ELSE IF ~failed /\ unset THEN Raise(p.st, "TypeError")
       ELSE
  With(extract_emails_from_bio(p.st, s2, env), LAMBDA e :
    LET emails_section ==
          IF e.value # EmptyBag THEN [emails |-> e.value]
          ELSE [none |-> "No emails found in bio"]
    IN IF e.exc # "none" THEN e
       ELSE
  With(get_recent_posts(e.st, s3, env, 6), LAMBDA r :
    IF r.exc # "none" THEN r
    ELSE
  With([target |-> Target,
        generated |-> st.clock \div 10,
        profile |-> profile_section,
        emails |-> emails_section,
        posts |-> posts_analysis(r.value),
        files |-> get_downloaded_files_section(r.st.files)], LAMBDA full_report :
  With(save_report(r.st, full_report, "full_report"), LAMBDA saved :
    Ok(saved.st, [text |-> full_report, saved_to |-> saved.value]))))))

----------------------------------------------------------------------------
(* The archival download *)

\* with open(filename, ...) as f: f.write(data); downloaded.append(filename);
\* self.downloaded_files.append(filename)
write_download(st, filename, data) ==
  [st EXCEPT !.written = Append(@, File(filename, data)),
             !.downloaded = Append(@, filename),
             !.files = Append(@, filename)]

TargetDir(folder) == <<"downloads", Target, folder>>
FileName(name, ext) == [name |-> name, ext |-> ext]

\* The answers to the media fetches of one download: the fetch for the k-th
\* item (the profile picture, then the posts, then the stories, by position)
\* is answered by the plan's k-th script, taken round.
PlanScript(plan, k) == plan[((k - 1) % Len(plan)) + 1]

\* fetch_media, writing the body of every response that is ok.
fetch_media_AnyOk(st, s, env, filename) ==
  With(safe_request(st, s, env), LAMBDA r :
    LET response == r.value
    IN IF ResponseTruthy(response)
       THEN [st |-> write_download(r.st, filename, response.content), saved |-> TRUE]
       ELSE [st |-> r.st, saved |-> FALSE])

\* response = self.safe_request(media_url)
\* if response and response.status_code == 200: the body is written
fetch_media(st, s, env, filename) ==
  With(safe_request(st, s, env), LAMBDA r :
    LET response == r.value
    IN IF ResponseTruthy(response) /\ response.status_code = 200
       THEN [st |-> write_download(r.st, filename, response.content), saved |-> TRUE]
       ELSE [st |-> r.st, saved |-> FALSE])

\* A story page body: whether the "story" items pattern is found in it, and
\* whether the captured span parses as JSON, to which items.
NoStory == [story |-> FALSE]
BadStory == [story |-> TRUE, parses |-> FALSE]
StoryPage(items) == [story |-> TRUE, parses |-> TRUE, items |-> items]

story_info(item) ==
  [id |-> Get(item, "id", None),
   url |-> Get(Get(Get(item, "image_versions2", EmptyDict), "candidates",
                   <<EmptyDict>>)[1], "url", None),
   is_video |-> PyBool(Get(item, "media_type", None) = PyInt(2)),
   timestamp |-> Get(item, "taken_at", None),
   expiring_at |-> Get(item, "expiring_at", None)]

\* candidates[0] of an empty candidates list
NoCandidate(item) ==
  Get(Get(item, "image_versions2", EmptyDict), "candidates", <<EmptyDict>>) = <<>>

get_stories(st, s, env) ==
  With(safe_request(st, s, env), LAMBDA r :
    LET response == r.value
        items == response.content.items
        infos == [i \in 1..Len(items) |-> story_info(items[i])]
    IN IF ~(ResponseTruthy(response) /\ response.status_code = 200) THEN Ok(r.st, <<>>)
       ELSE IF ~(response.content.story /\ response.content.parses) THEN Ok(r.st, <<>>)
       ELSE IF \E i \in 1..Len(items) : NoCandidate(items[i]) THEN Ok(r.st, <<>>)
       ELSE Ok(r.st, SelectSeq(infos, LAMBDA x : TruthyStr(x.url))))

\* A quotient of integers, kept exact.
Ratio(n, d) == [num |-> n, den |-> d]

\* (post.get('likes', 0) + post.get('comments', 0))
\*    / max(profile.get('followers', 1), 1) * 100
engagement_rate(post, profile) ==
  LET followers == Get(profile, "followers", PyInt(1))
  IN IF followers = None THEN [exc |-> "TypeError"]
     ELSE [exc |-> "none",
           value |-> Ratio((post.likes.v + post.comments.v) * 100,
                           Max(followers.v, 1))]

Ext(x) == IF TruthyBool(x.is_video) THEN "mp4" ELSE "jpg"

\* for i, post in enumerate(posts): ... from the post numbered i on
RECURSIVE download_posts(_, _, _, _, _, _, _)
download_posts(st, posts, i, profile, plan, env, posts_info) ==
  IF i > Len(posts) THEN Ok(st, posts_info)
  ELSE LET post == posts[i]
           filename == Path(TargetDir("posts"),
                            [name |-> "post", number |-> i, ext |-> Ext(post)])
           rate == engagement_rate(post, profile)
       IN
  With(IF TruthyStr(post.display_url)
       THEN fetch_media(st, PlanScript(plan, i + 1), env, filename)
       ELSE [st |-> st, saved |-> FALSE], LAMBDA m :
    LET info == [number |-> i,
                 file |-> IF m.saved THEN filename.name ELSE None,
                 id |-> post.id,
                 likes |-> Commas(post.likes.v),
                 comments |-> Commas(post.comments.v),
                 caption_length |-> Len(post.caption),
                 hashtags |-> post.hashtags,
                 mentions |-> post.mentions,
                 engagement_rate |-> rate.value]
    IN IF rate.exc # "none" THEN Raise(m.st, rate.exc)
       ELSE download_posts(Sleep(m.st, 5), posts, i + 1, profile, plan, env,
                           Append(posts_info, info)))

\* for i, story in enumerate(stories): ... from the story numbered i on; k
\* media fetches were made before the stories
RECURSIVE download_stories(_, _, _, _, _, _, _)
download_stories(st, stories, i, k, plan, env, stories_info) ==
  IF i > Len(stories) THEN Ok(st, stories_info)
  ELSE LET story == stories[i]
           filename == Path(TargetDir("stories"),
                            [name |-> "story", number |-> i, ext |-> Ext(story)])
       IN
  With(IF TruthyStr(story.url)
       THEN fetch_media(st, PlanScript(plan, k + i), env, filename)
       ELSE [st |-> st, saved |-> FALSE], LAMBDA m :
    LET info == [number |-> i,
                 file |-> IF m.saved THEN filename.name ELSE None,
                 id |-> story.id]
    IN download_stories(Sleep(m.st, 5), stories, i + 1, k, plan, env,
                        Append(stories_info, info)))

\* What download_media returns: the list downloaded, and the exception its
\* except clause caught, if any.
Downloaded(st, caught) == Ok(st, [downloaded |-> st.downloaded, caught |-> caught])

download_media(st, s1, plan, s3, s4, env, limit) ==
  With(get_profile_info(st, s1, env), LAMBDA p :
    LET profile == p.value
        hd == Get(profile, "profile_pic_url_hd", None)
        profile_pic_url == IF TruthyStr(hd) THEN hd
                           ELSE Get(profile, "profile_pic_url", None)
        counters == Counters(profile)
        general_info ==
          [username |-> profile.username,
           biography |-> profile.biography,
           followers |-> Commas(counters["followers"].v),
           following |-> Commas(counters["following"].v),
           posts |-> Commas(counters["posts"].v),
           private |-> YesNo(profile.is_private)]
    IN IF p.exc # "none" THEN Downloaded(p.st, p.exc)
       ELSE IF "error" \in DOMAIN profile THEN Downloaded(p.st, "none")
       ELSE
  With(IF TruthyStr(profile_pic_url)
       THEN fetch_media(p.st, PlanScript(plan, 1), env,
                        Path(TargetDir("general"), FileName("profile_picture", "jpg")))
       ELSE [st |-> p.st, saved |-> FALSE], LAMBDA pic :
    IF \E k \in DOMAIN counters : counters[k] = None
    THEN Downloaded(pic.st, "TypeError")
    ELSE
  With(get_recent_posts(
         write_download(pic.st,
                        Path(TargetDir("general"), FileName("profile_info", "txt")),
                        general_info),
         s3, env, limit), LAMBDA r :
    IF r.exc # "none" THEN Downloaded(r.st, r.exc)
    ELSE
  With(download_posts(r.st, r.value, 1, profile, plan, env, <<>>), LAMBDA dp :
    LET posts == r.value
        analysed ==
          IF posts # <<>>
          THEN write_download(dp.st,
                              Path(TargetDir("posts"), FileName("posts_analysis", "txt")),
                              [total |-> Len(posts), posts |-> dp.value])
          ELSE r.st
    IN IF posts # <<>> /\ dp.exc # "none" THEN Downloaded(dp.st, dp.exc)
       ELSE
  With(get_stories(analysed, s4, env), LAMBDA g :
  With(download_stories(g.st, g.value, 1, 1 + Len(posts), plan, env, <<>>), LAMBDA ds :
    LET stories == g.value
        told ==
          IF stories # <<>>
          THEN write_download(ds.st,
                              Path(TargetDir("stories"),
                                   FileName("stories_analysis", "txt")),
                              [total |-> Len(stories), stories |-> ds.value])
          ELSE g.st
    IN Downloaded(write_download(told,
                                 Path(TargetDir("highlights"),
                                      FileName("highlights_info", "txt")),
                                 [note |-> "Highlights require authentication to download"]),
                  "none")))))))

----------------------------------------------------------------------------
(* What the server holds: users, their posts and the pages served *)

Caption(text) == [edges |-> <<[node |-> [text |-> text]]>>]

NodePool ==
  << [id |-> PyStr("p1"), shortcode |-> PyStr("s1"),
      taken_at_timestamp |-> PyInt(1700000000), is_video |-> PyBool(FALSE),
      display_url |-> PyStr("cdn/p1"),
      edge_media_to_caption |-> Caption(<<"#", "a", " ", "@", "b">>),
      edge_media_to_comment |-> [count |-> PyInt(1)],
      edge_liked_by |-> [count |-> PyInt(10)],
      dimensions |-> [height |-> 1080, width |-> 1080]],
     [id |-> PyStr("p2"), shortcode |-> PyStr("s2"),
      taken_at_timestamp |-> PyInt(1700000100), is_video |-> PyBool(TRUE),
      display_url |-> PyStr("cdn/p2"),
      edge_media_to_caption |-> Caption(<<"#", "a", " ", "#", "a", "@", "B">>),
      edge_media_to_comment |-> [count |-> PyInt(2)],
      edge_liked_by |-> [count |-> PyInt(20)],
      dimensions |-> [height |-> 720, width |-> 1280]],
     [id |-> PyStr("p3")],
     [id |-> PyStr("p4"), shortcode |-> PyStr("s4"),
      display_url |-> PyStr("cdn/p4"),
      edge_media_to_caption |-> [edges |-> <<>>],
      edge_media_to_comment |-> [count |-> PyInt(0)],
      edge_liked_by |-> [count |-> PyInt(0)]] >>

\* n media edges, taken round the pool from its entry `first`
Timeline(n, first) ==
  [i \in 1..n |-> [node |-> NodePool[((first + i - 2) % Len(NodePool)) + 1]]]

EdgeLists ==
  {Timeline(n, 1) : n \in 0..MaxEdges} \cup {Timeline(n, 3) : n \in 1..2}

\* a dict holding key k when v is given
Opt(k, v) == IF v = None THEN EmptyDict ELSE (k :> v)

MkUser(followers, following, posts, biography, pic, media) ==
  [username |-> PyStr("target"), full_name |-> PyStr("Target"),
   is_private |-> PyBool(FALSE), is_verified |-> PyBool(TRUE),
   is_business_account |-> PyBool(FALSE), external_url |-> None,
   category_name |-> None]
  @@ Opt("biography", biography)
  @@ Opt("profile_pic_url_hd", pic)
  @@ (IF followers = None THEN EmptyDict
      ELSE ("edge_followed_by" :> [count |-> followers]))
  @@ (IF following = None THEN EmptyDict
      ELSE ("edge_follow" :> [count |-> following]))
  @@ (IF posts = None /\ DOMAIN media = {} THEN EmptyDict
      ELSE ("edge_owner_to_timeline_media" :> (Opt("count", posts) @@ media)))

BioMail == PyStr(<<"mail", "a@b.co", "or", "a@b.co">>)
BioPlain == PyStr(<<"hello">>)
BioEmpty == PyStr(<<>>)
Pic == PyStr("cdn/pic")
TwoPosts == [edges |-> Timeline(2, 1)]

\* The users whose profile fields vary, with two posts each.
ProfileUsers ==
  {MkUser(PyInt(100), PyInt(5), PyInt(2), BioMail, Pic, TwoPosts),
   MkUser(PyInt(0), PyInt(5), PyInt(2), BioPlain, Pic, TwoPosts),
   MkUser(None, PyInt(5), PyInt(2), BioPlain, Pic, TwoPosts),
   MkUser(PyInt(100), None, PyInt(2), BioPlain, Pic, TwoPosts),
   MkUser(PyInt(100), PyInt(5), None, BioPlain, Pic, TwoPosts),
   MkUser(PyInt(100), PyInt(5), PyInt(2), None, Pic, TwoPosts),
   MkUser(PyInt(100), PyInt(5), PyInt(2), BioEmpty, None, TwoPosts)}

\* The users whose media edges vary.
PostUsers ==
  {MkUser(PyInt(100), PyInt(5), PyInt(Len(e)), BioPlain, Pic, [edges |-> e])
     : e \in EdgeLists}
  \cup {MkUser(PyInt(100), PyInt(5), None, BioPlain, Pic, EmptyDict),
        MkUser(PyInt(100), PyInt(5), PyInt(0), BioPlain, Pic, EmptyDict)}

Blob(user) == [entry_data |-> [ProfilePage |-> <<[graphql |-> [user |-> user]]>>]]

\* Blobs on which a segment of the path to the user is missing.
BrokenBlobs ==
  {[config |-> EmptyDict],
   [entry_data |-> [LoginPage |-> <<>>]],
   [entry_data |-> [ProfilePage |-> <<>>]],
   [entry_data |-> [ProfilePage |-> <<[logging_page_id |-> PyStr("x")]>>]],
   [entry_data |-> [ProfilePage |-> <<[graphql |-> EmptyDict]>>]]}

\* Answers that give no blob: 404, a transport failure, a refusal, a page
\* without the marker, a span that is not JSON, an empty object.
NoBlobScripts ==
  {<<Response(404, NoMarker)>>, <<RequestException>>, <<Response(403, NoMarker)>>,
   <<Response(200, NoMarker)>>, <<Response(200, BadJson)>>,
   <<Response(200, Page(EmptyDict))>>}

Served(blobs) == {<<Response(200, Page(b))>> : b \in blobs}

\* A page served after a retried answer.
RetriedScripts ==
  {<<Response(r, NoMarker), Response(200, Page(Blob(u)))>>
     : r \in {429, 503},
       u \in {MkUser(PyInt(100), PyInt(5), PyInt(2), BioMail, Pic, TwoPosts)}}

ProfileScripts ==
  NoBlobScripts \cup Served(BrokenBlobs) \cup RetriedScripts
    \cup Served({Blob(u) : u \in ProfileUsers})

PostScripts ==
  NoBlobScripts \cup Served(BrokenBlobs) \cup RetriedScripts
    \cup Served({Blob(u) : u \in PostUsers})

\* The pages the tag aggregations are run on.
TagScripts ==
  {<<Response(404, NoMarker)>>, <<Response(200, Page([entry_data |-> [ProfilePage |-> <<>>]]))>>}
    \cup Served({Blob(MkUser(PyInt(100), PyInt(5), PyInt(Len(e)), BioPlain, Pic,
                             [edges |-> e]))
                   : e \in {Timeline(n, 1) : n \in 0..3}})

\* The pages the second and third fetch of generate_report are answered with.
EmailScripts ==
  {<<Response(404, NoMarker)>>,
   <<Response(200, Page([entry_data |-> [ProfilePage |-> <<>>]]))>>}
    \cup Served({Blob(MkUser(PyInt(100), PyInt(5), PyInt(2), b, Pic, TwoPosts))
                   : b \in {None, BioMail, BioPlain}})

ReportPostScripts ==
  {<<RequestException>>, <<Response(200, BadJson)>>,
   <<Response(200, Page([config |-> EmptyDict]))>>,
   <<Response(200, Page([entry_data |-> [ProfilePage |-> <<>>]]))>>}
    \cup Served({Blob(MkUser(PyInt(100), PyInt(5), PyInt(Len(e)), BioPlain, Pic,
                             [edges |-> e]))
                   : e \in {Timeline(n, 1) : n \in {0, 1, 2, 6, MaxEdges}}
                            \cup {Timeline(2, 3)}})

\* The pages and the media answers download_media is run on.
DownloadProfileScripts ==
  {<<Response(404, NoMarker)>>,
   <<Response(200, Page([entry_data |-> [ProfilePage |-> <<>>]]))>>}
    \cup Served({Blob(u) : u \in ProfileUsers})

DownloadPostScripts ==
  {<<RequestException>>,
   <<Response(200, Page([entry_data |-> [ProfilePage |-> <<>>]]))>>}
    \cup Served({Blob(MkUser(PyInt(100), PyInt(5), PyInt(Len(e)), BioPlain, Pic,
                             [edges |-> e]))
                   : e \in {Timeline(n, 1) : n \in {0, 2, 4}}})

Bytes == "bytes"
MediaOk == <<Response(200, Bytes)>>

MediaPlans ==
  {<<MediaOk>>,
   <<<<Response(404, Bytes)>>, MediaOk, <<Response(206, Bytes)>>>>,
   <<<<RequestException>>, <<Response(503, Bytes), Response(200, Bytes)>>,
     <<Response(403, Bytes)>>>>}

StoryItem(id, type) ==
  [id |-> PyStr(id), media_type |-> PyInt(type), taken_at |-> PyInt(1700000200),
   expiring_at |-> PyInt(1700086600),
   image_versions2 |-> [candidates |-> <<[url |-> PyStr("cdn/story")]>>]]

StoryScripts ==
  {<<Response(404, NoStory)>>, <<Response(200, NoStory)>>,
   <<Response(200, StoryPage(<<StoryItem("s1", 1), [id |-> PyStr("s2")],
                               StoryItem("s3", 2)>>))>>,
   <<Response(200, StoryPage(<<StoryItem("s1", 1),
                               [id |-> PyStr("s2"),
                                image_versions2 |-> [candidates |-> <<>>]]>>))>>,
   <<Response(200, BadStory)>>}

DownloadLimits == {0, 1, MaxLimit}

Limits == {0, 1, 2, 6, MaxLimit}

\* The jitter and the latency met by the dispatches of one operation: the
\* answers come at once, so that rate_limit sleeps before every dispatch but
\* the first of the session.
Envs == {[jitter |-> JitterMin, latency |-> 0]}

----------------------------------------------------------------------------
(* The operations of the session *)

Ready == pc = "idle" /\ ret = NoOp /\ request_count < MaxSessionRequests

\* The operation ends: the session takes the state it leaves.
Done(op, args, r) ==
  /\ clock' = r.st.clock
  /\ last_request_time' = r.st.last
  /\ request_count' = r.st.count
  /\ downloaded_files' = r.st.files
  /\ written' = r.st.written
  /\ ret' = [op |-> op, args |-> args, exc |-> r.exc, value |-> r.value]
  /\ UNCHANGED frame

NoArgs == EmptyDict

GetProfileInfo(s, env) ==
  /\ Ready
  /\ Done("get_profile_info", [page |-> s], get_profile_info(Session, s, env))

ExtractEmailsFromBio(s, env) ==
  /\ Ready
  /\ Done("extract_emails_from_bio", NoArgs,
          extract_emails_from_bio(Session, s, env))

GetRecentPosts(s, env, limit) ==
  /\ Ready
  /\ Done("get_recent_posts", [page |-> s, limit |-> limit],
          get_recent_posts(Session, s, env, limit))

GetHashtagsUsed(s, env, limit) ==
  /\ Ready
  /\ Done("get_hashtags_used", [page |-> s, limit |-> limit],
          get_hashtags_used(Session, s, env, limit))

GetMentionsUsed(s, env, limit) ==
  /\ Ready
  /\ Done("get_mentions_used", [page |-> s, limit |-> limit],
          get_mentions_used(Session, s, env, limit))

GenerateReport(s1, s2, s3, env) ==
  /\ Ready
  /\ Done("generate_report", [posts_page |-> s3],
          generate_report(Session, s1, s2, s3, env))

DownloadMedia(s1, plan, s3, s4, env, limit) ==
  /\ Ready
  /\ Done("download_media",
          [profile_page |-> s1, posts_page |-> s3, limit |-> limit, plan |-> plan,
           stories_page |-> s4],
          download_media(Session, s1, plan, s3, s4, env, limit))

\* Every caption of at most MaxCaption characters, on a page of two posts of
\* which the second repeats a tag.
Alphabet == {"#", "@", "a", "A", " "}
Captions == UNION {[1..n -> Alphabet] : n \in 0..MaxCaption}
CaptionNode(id, text) == [node |-> [id |-> PyStr(id), edge_media_to_caption |-> Caption(text)]]
CaptionScripts ==
  Served({Blob(MkUser(PyInt(100), PyInt(5), PyInt(2), BioPlain, Pic,
                      [edges |-> <<CaptionNode("c1", c), CaptionNode("c2", d)>>]))
            : c \in Captions, d \in {<<"#", "a", "@", "A">>}})

\* The caller takes the outcome of the operation (main prints it) and the
\* session waits for the next one.
Prompt ==
  /\ ret # NoOp
  /\ ret' = NoOp
  /\ written' = <<>>
  /\ UNCHANGED <<session, downloaded_files, frame>>

Next ==
  \/ Prompt
  \/ \E s \in ProfileScripts, env \in Envs : GetProfileInfo(s, env)
  \/ \E s \in ProfileScripts, env \in Envs : ExtractEmailsFromBio(s, env)
  \/ \E s \in PostScripts, env \in Envs, limit \in Limits :
       GetRecentPosts(s, env, limit)
  \/ \E s \in TagScripts, env \in Envs : GetHashtagsUsed(s, env, MaxLimit)
  \/ \E s \in TagScripts, env \in Envs : GetMentionsUsed(s, env, MaxLimit)
  \/ \E s1 \in ProfileScripts, s2 \in EmailScripts, s3 \in ReportPostScripts,
        env \in Envs : GenerateReport(s1, s2, s3, env)
  \/ \E s1 \in DownloadProfileScripts, plan \in MediaPlans,
        s3 \in DownloadPostScripts, s4 \in StoryScripts, env \in Envs,
        limit \in DownloadLimits : DownloadMedia(s1, plan, s3, s4, env, limit)

\* The operations of one session, one after another.
Spec == Init /\ [][Next]_vars

TagNext ==
  \/ \E s \in CaptionScripts, env \in Envs, limit \in 1..2 :
       GetHashtagsUsed(s, env, limit)
  \/ \E s \in CaptionScripts, env \in Envs, limit \in 1..2 :
       GetMentionsUsed(s, env, limit)

\* The tag aggregations of a new session, on every caption.
TagSpec == Init /\ [][TagNext]_vars

----------------------------------------------------------------------------
(* Properties of the fetcher *)

Returned == pc \in {"return", "idle"} /\ trace # <<>>
Is404(o) == HasStatus(o, 404)
Is429(o) == HasStatus(o, 429)
Is429Nap(n) == n.why = "429" /\ n.dur = Cooldown429

\* C1: a 404 answer ends the call: it is the last answer the call receives,
\* the call returns None, and a call answered 404 at once has made exactly
\* one dispatch.
C1_NotFoundNotRetried ==
  \A i \in 1..Len(trace) :
    Is404(trace[i]) =>
      /\ i = Len(trace)
      /\ pc \in {"return", "idle"}
      /\ result = None
      /\ request_count = entry_count + i

C1_Witness ==
  /\ pc = "idle"
  /\ trace = <<Response(404, "body")>>
  /\ result = None
  /\ request_count = entry_count + 1

RateLimitedThenOk ==
  {s \in Scripts : HasStatus(s[Len(s)], 200) /\ SelectCount(s, Is429) >= 1}

\* C2: a call whose answers are 429s (and other retried answers) followed by a
\* 200 eventually returns that 200 response, and by then the 60 s cooldown has
\* been slept once per 429 received; in every return of a 200 response the
\* cooldowns taken are as many as the 429s received.
C2_RateLimitedThenOk ==
  /\ [](Returned /\ HasStatus(trace[Len(trace)], 200) =>
          /\ result = trace[Len(trace)]
          /\ SelectCount(naps, Is429Nap) = SelectCount(trace, Is429))
  /\ \A s \in RateLimitedThenOk :
       (pc = "rate_limit" /\ depth = 1 /\ script = s)
         ~> (/\ pc = "idle"
             /\ trace = s
             /\ result = s[Len(s)]
             /\ SelectCount(naps, Is429Nap) = SelectCount(s, Is429)
             /\ SelectCount(naps, Is429Nap) >= 1)

C2_Witness ==
  /\ pc = "idle"
  /\ trace = <<Response(429, "busy"), Response(200, "body")>>
  /\ result = Response(200, "body")
  /\ SelectCount(naps, Is429Nap) = 1

\* A step that makes a dispatch: the call receives one more answer.
Dispatches == Len(trace') = Len(trace) + 1
\* A step that enters a call.
Enters == pc = "idle" /\ pc' = "rate_limit"
\* The dispatches the running call has made or is making.
CallDispatches == Len(trace) + (IF pc = "request" THEN 1 ELSE 0)

\* C11: every dispatch of safe_request, the retries after a 429 or a server
\* error included, is the step next after one rate_limit step, which sets
\* last_request_time to the current time and adds exactly one to
\* request_count; nothing else changes request_count, which never decreases,
\* so that it counts the dispatches of the session: those made before the
\* running call was entered and those of the call.
C11_DispatchesCounted ==
  /\ [](request_count = entry_count + CallDispatches)
  /\ [][/\ request_count' >= request_count
         /\ (Dispatches => pc = "request" /\ request_count' = request_count)
         /\ (pc' = "request" =>
               /\ pc = "rate_limit"
               /\ request_count' = request_count + 1
               /\ last_request_time' = clock')
         /\ (request_count' # request_count => pc' = "request")
         /\ (Enters => entry_count' = request_count)]_vars

C11_Witness ==
  /\ pc = "idle"
  /\ Len(trace) = 2
  /\ HasStatus(trace[1], 503)
  /\ entry_count = 1
  /\ request_count = 3

\* A step of rate_limit: the fetcher passes from the entry of a dispatch to
\* the dispatch.
Paces == pc = "rate_limit" /\ pc' = "request"
Elapsed == clock - last_request_time

\* C12: two consecutive dispatches of a session, whatever calls they belong
\* to, are at least rate_limit_delay apart; before a dispatch the fetcher
\* suspends for the remaining time plus a positive jitter when less than the
\* delay has elapsed since the previous dispatch, and does not suspend when
\* the delay has elapsed.
C12_DispatchesSpaced ==
  [][Paces =>
       /\ last_request_time' - last_request_time >= rate_limit_delay
       /\ Elapsed < rate_limit_delay =>
            /\ clock' - clock > rate_limit_delay - Elapsed
            /\ clock' - clock - (rate_limit_delay - Elapsed) \in JitterMin..JitterMax
            /\ JitterMin > 0
       /\ Elapsed >= rate_limit_delay => clock' = clock]_vars

\* a dispatch of a later call of the session, made after a suspension
C12_Witness ==
  /\ pc = "request"
  /\ entry_count = 1
  /\ trace = <<>>
  /\ naps # <<>>
  /\ naps[1].why = "rate_limit"
  /\ naps[1].dur > 0

Retried(o) == Classify(o) \in {"retry429", "retry5xx"}
Is5xx(o) == Classify(o) = "retry5xx"
Is5xxNap(n) == n.why = "5xx" /\ n.dur = Cooldown5xx
\* what safe_request returns on a final outcome
Outcome(o) == IF Classify(o) = "return" THEN o ELSE None
\* the cooldowns taken by the call are one per retried answer received
CooledDown ==
  /\ SelectCount(naps, Is429Nap) = SelectCount(trace, Is429)
  /\ SelectCount(naps, Is5xxNap) = SelectCount(trace, Is5xx)

\* C13: safe_request retries without a cap.  A call returns only after an
\* answer that is neither a 429 nor a server error (a transport failure
\* included), whatever the number of retried answers before it; on answers
\* that are all 429s or server errors the call never returns and dispatches
\* again after each of them; on answers that end with a final outcome the
\* call ends with that outcome, having taken the fixed cooldown once per
\* retried answer.  The answers of a call are fixed when it is entered.
C13_RetriesUncapped ==
  /\ [](Returned =>
          /\ ~Retried(trace[Len(trace)])
          /\ \A i \in 1..(Len(trace) - 1) : Retried(trace[i])
          /\ result = Outcome(trace[Len(trace)])
          /\ CooledDown)
  /\ [](script \in BusyScripts /\ pc # "idle" =>
          /\ pc # "return"
          /\ pc \in {"rate_limit", "request"} => CooledDown)
  /\ [][pc # "idle" => script' = script]_vars
  /\ (pc = "rate_limit" /\ script \in BusyScripts /\ trace = <<>>)
       ~> [](pc = "request" /\ trace = script /\ depth = Len(script) + 1)
  /\ (pc = "rate_limit" /\ script \in Scripts /\ trace = <<>>)
       ~> (/\ Returned
           /\ trace = script
           /\ result = Outcome(script[Len(script)])
           /\ CooledDown)

\* a call ended by a transport failure after a 429 and a server error
C13_Witness ==
  /\ pc = "idle"
  /\ trace = <<Response(429, "busy"), Response(503, "busy"), RequestException>>
  /\ result = None
  /\ Len(naps) >= 2

----------------------------------------------------------------------------
(* Properties of the operations *)

\* What a page gives, stated on the page itself: the blob served, whether the
\* path entry_data -> ProfilePage -> first element -> graphql -> user is
\* whole on it, the user, and the media edges.
Answer(s) == s[Len(s)]
GivesBlob(s) ==
  /\ IsResponse(Answer(s))
  /\ Answer(s).status_code \in 200..399
  /\ Answer(s).content.marker
  /\ Answer(s).content.parses
  /\ DOMAIN Answer(s).content.blob # {}
BlobOf(s) == Answer(s).content.blob
PathWhole(b) ==
  /\ "entry_data" \in DOMAIN b
  /\ "ProfilePage" \in DOMAIN b.entry_data
  /\ b.entry_data.ProfilePage # <<>>
  /\ "graphql" \in DOMAIN b.entry_data.ProfilePage[1]
  /\ "user" \in DOMAIN b.entry_data.ProfilePage[1].graphql
UserOf(s) == BlobOf(s).entry_data.ProfilePage[1].graphql.user
GivesUser(s) == GivesBlob(s) /\ PathWhole(BlobOf(s))
EdgesOf(s) ==
  IF "edge_owner_to_timeline_media" \in DOMAIN UserOf(s)
     /\ "edges" \in DOMAIN UserOf(s).edge_owner_to_timeline_media
  THEN UserOf(s).edge_owner_to_timeline_media.edges
  ELSE <<>>
FollowersOf(s) ==
  IF "edge_followed_by" \in DOMAIN UserOf(s)
  THEN UserOf(s).edge_followed_by.count ELSE None

IsRecord(v) == DOMAIN v = ProfileFields
IsMarker(v) == DOMAIN v = {"error"}

\* C3: generate_report never raises: whatever the fetches give, it returns a
\* report text, and a failed profile fetch or parse is an error line of the
\* profile section.
C3_ReportNeverRaises ==
  ret.op = "generate_report" =>
    /\ ret.exc = "none"
    /\ "text" \in DOMAIN ret.value

\* C4: get_profile_info never raises and returns either a record carrying all
\* the profile fields and no error key, or exactly the error marker; it returns
\* the marker whenever a segment of the path to the user is missing.
C4_RecordOrMarker ==
  ret.op = "get_profile_info" =>
    /\ ret.exc = "none"
    /\ IsRecord(ret.value) \/ IsMarker(ret.value)
    /\ (GivesBlob(ret.args.page) /\ ~PathWhole(BlobOf(ret.args.page)))
         => IsMarker(ret.value)

\* C5: on a blob whose media-edge list has e edges, get_recent_posts(target, n)
\* with n >= 0 returns min(n, e) post records, those of the first min(n, e)
\* edges in their order.
C5_PostsTruncated ==
  (ret.op = "get_recent_posts" /\ GivesUser(ret.args.page)) =>
    LET edges == EdgesOf(ret.args.page)
        n == ret.args.limit
    IN /\ ret.exc = "none"
       /\ Len(ret.value) = Min(n, Len(edges))
       /\ \A i \in 1..Len(ret.value) :
            /\ ret.value[i] = post_info(edges[i])
            /\ ret.value[i].id = edges[i].node.id

C5_Witness ==
  /\ ret.op = "get_recent_posts"
  /\ GivesUser(ret.args.page)
  /\ ret.args.limit = 2
  /\ Len(EdgesOf(ret.args.page)) = MaxEdges
  /\ Len(ret.value) = 2
  /\ ret.value[2].id = PyStr("p2")

IsAnalysis(f) == f.path = Path(TargetDir("posts"), FileName("posts_analysis", "txt"))
Floored(followers) == IF followers = None THEN 1 ELSE Max(followers.v, 1)

\* C6: when download_media analyses the posts of a profile whose follower
\* count is zero or unset, every post gets the engagement rate
\* (likes + comments) / max(followerCount, 1) * 100 with followerCount floored
\* at 1; the computation does not fail, and the rate of a post without likes
\* and comments is 0.
C6_EngagementFloored ==
  (/\ ret.op = "download_media"
   /\ GivesUser(ret.args.profile_page)
   /\ FollowersOf(ret.args.profile_page) \in {None, PyInt(0)}
   /\ Count(UserOf(ret.args.profile_page), "edge_follow") # None
   /\ Count(UserOf(ret.args.profile_page), "edge_owner_to_timeline_media") # None
   /\ GivesUser(ret.args.posts_page)
   /\ EdgesOf(ret.args.posts_page) # <<>>
   /\ ret.args.limit > 0) =>
    /\ ret.value.caught = "none"
    /\ \E i \in 1..Len(written) :
         /\ IsAnalysis(written[i])
         /\ \A k \in 1..Len(written[i].data.posts) :
              LET info == written[i].data.posts[k]
                  rate == info.engagement_rate
              IN /\ rate.den = Floored(FollowersOf(ret.args.profile_page))
                 /\ rate.den >= 1
                 /\ rate.num = (info.likes.digits + info.comments.digits) * 100
                 /\ (info.likes.digits = 0 /\ info.comments.digits = 0) => rate.num = 0

\* C7: for a page whose blob yields posts, the report of generate_report shows
\* the count of the first min(6, available) posts, the sums of their likes and
\* of their comments, the average of the likes as an integer quotient, and
\* the call returns the path the report is saved to; without posts the report
\* shows the 'no posts found' line.
C7_ReportStatistics ==
  (ret.op = "generate_report" /\ GivesUser(ret.args.posts_page)) =>
    LET edges == EdgesOf(ret.args.posts_page)
        n == Min(6, Len(edges))
        likes == [i \in 1..n |-> Get(Get(edges[i].node, "edge_liked_by", EmptyDict),
                                     "count", PyInt(0)).v]
        comments == [i \in 1..n |-> Get(Get(edges[i].node, "edge_media_to_comment",
                                            EmptyDict), "count", PyInt(0)).v]
    IN /\ ret.exc = "none"
       /\ ret.value.saved_to.dirs = <<"reports">>
       /\ IF n > 0
          THEN ret.value.text.posts =
                 [analyzed |-> n,
                  total_likes |-> Commas(SeqSum(likes)),
                  total_comments |-> Commas(SeqSum(comments)),
                  avg_likes |-> Commas(SeqSum(likes) \div n)]
          ELSE DOMAIN ret.value.text.posts = {"none"}

\* The tokens of a text, stated on the text: a prefix character followed by
\* a longest run of word characters.
IsToken(prefix, text, i, j) ==
  /\ text[i] = prefix
  /\ j > i
  /\ \A k \in (i + 1)..j : text[k] \in WordChars
  /\ j = Len(text) \/ text[j + 1] \notin WordChars
TokenStarts(prefix, text) ==
  {i \in 1..Len(text) : \E j \in i..Len(text) : IsToken(prefix, text, i, j)}
TokensOf(prefix, text) ==
  {SubSeq(text, i, j) : <<i, j>> \in
     {x \in (1..Len(text)) \X (1..Len(text)) : IsToken(prefix, text, x[1], x[2])}}
TokenFrom(prefix, text, i) ==
  SubSeq(text, i, CHOOSE j \in i..Len(text) : IsToken(prefix, text, i, j))
\* the k-th smallest element of a set of numbers
Nth(S, k) == CHOOSE x \in S : Cardinality({y \in S : y < x}) = k - 1

IsTagOp == ret.op \in {"get_hashtags_used", "get_mentions_used"}
TagPrefix == IF ret.op = "get_hashtags_used" THEN "#" ELSE "@"
CaptionOf(edge) ==
  IF "edge_media_to_caption" \in DOMAIN edge.node
     /\ edge.node.edge_media_to_caption.edges # <<>>
  THEN edge.node.edge_media_to_caption.edges[1].node.text
  ELSE <<>>
TakenCaptions ==
  LET edges == EdgesOf(ret.args.page)
  IN [i \in 1..Min(ret.args.limit, Len(edges)) |-> CaptionOf(edges[i])]
NoRepeat(xs) == \A i, j \in 1..Len(xs) : xs[i] = xs[j] => i = j

Occurrences(prefix, text) ==
  [k \in 1..Cardinality(TokenStarts(prefix, text)) |->
     TokenFrom(prefix, text, Nth(TokenStarts(prefix, text), k))]

IsSnapshot(f) == f.path.dirs = <<"data">>

\* C9: every snapshot written through save_json_data carries a top-level
\* timestamp field in ISO-8601 form.
C9_SnapshotsTimestamped ==
  \A i \in 1..Len(written) :
    IsSnapshot(written[i]) =>
      /\ "timestamp" \in DOMAIN written[i].data
      /\ written[i].data.timestamp.fmt = "ISO-8601"

IsPrefix(a, b) == Len(a) <= Len(b) /\ SubSeq(b, 1, Len(a)) = a

\* C10: the manifest is append-only: every step leaves the manifest it found
\* as a prefix of the new one, and an operation appends the paths of the files
\* it wrote, all of them, in the order it wrote them.
C10_ManifestAppendOnly ==
  [][/\ IsPrefix(downloaded_files, downloaded_files')
     /\ (ret = NoOp /\ ret' # NoOp) =>
          downloaded_files' =
            downloaded_files \o [i \in 1..Len(written') |-> written'[i].path]]_vars

C10_Witness ==
  /\ ret.op = "download_media"
  /\ ret.value.caught = "none"
  /\ Len(written) >= 4
  /\ Len(downloaded_files) > Len(written)
  /\ downloaded_files[1].dirs = <<"data">>
  /\ \E i \in 1..Len(written) : written[i].path.dirs = <<"data">>
  /\ \E i \in 1..Len(written) : written[i].path.dirs = TargetDir("posts")

\* C14: get_recent_posts raises no exception and returns no error marker; it
\* returns the empty sequence whenever the fetch fails, the marker is absent,
\* the span is not JSON, or a segment of the path to the user is missing (a
\* missing key, an empty ProfilePage list), and an edge without the caption
\* structure gives a record like any other.
C14_PostsDegrade ==
  ret.op = "get_recent_posts" =>
    /\ ret.exc = "none"
    /\ DOMAIN ret.value = 1..Len(ret.value)
    /\ ~GivesUser(ret.args.page) => ret.value = <<>>

\* The profile record projected first by the latest operation, as its
\* snapshot holds it.
Projected == written # <<>> /\ written[1].path.dirs = <<"data">>
                            /\ written[1].path.name.kind = "profile"
ProjectedRecord == written[1].data
CounterKeys == {"followers", "following", "posts"}
Shown(record, k) == IF record[k] = None THEN Commas(0) ELSE Commas(record[k].v)
IsProfileInfo(f) == f.path = Path(TargetDir("general"), FileName("profile_info", "txt"))

\* C15: a counter absent from the blob is unset (None) in the record that
\* get_profile_info projects, and on a record with an unset counter the
\* renderers do not fail and show that counter as zero: the profile section of
\* the report of generate_report and the statistics of the profile_info file
\* of download_media.
C15_UnsetCountersShownZero ==
  /\ (ret.op = "get_profile_info" /\ GivesUser(ret.args.page)) =>
       /\ ret.value.followers = Count(UserOf(ret.args.page), "edge_followed_by")
       /\ ret.value.following = Count(UserOf(ret.args.page), "edge_follow")
       /\ ret.value.posts = Count(UserOf(ret.args.page), "edge_owner_to_timeline_media")
  /\ (/\ ret.op = "generate_report"
      /\ Projected
      /\ \E k \in CounterKeys : ProjectedRecord[k] = None) =>
       /\ ret.exc = "none"
       /\ ret.value.text.profile.Followers = Shown(ProjectedRecord, "followers")
       /\ ret.value.text.profile.Following = Shown(ProjectedRecord, "following")
       /\ ret.value.text.profile.Posts = Shown(ProjectedRecord, "posts")
  /\ (/\ ret.op = "download_media"
      /\ Projected
      /\ \E k \in CounterKeys : ProjectedRecord[k] = None) =>
       /\ ret.value.caught = "none"
       /\ \E i \in 1..Len(written) :
            /\ IsProfileInfo(written[i])
            /\ \A k \in CounterKeys : written[i].data[k] = Shown(ProjectedRecord, k)

\* The manifest when the listing of the report is rendered: the paths before
\* that of the report itself.
Listed == SubSeq(downloaded_files, 1, Len(downloaded_files) - 1)
\* The destination category of a path: the folder of base_dir it lies in.
Category(path) == path.dirs[1]
Group(paths, category) == SelectSeq(paths, LAMBDA f : Category(f) = category)

\* C16: every generate_report invocation returns after it has saved the report
\* text as a report artifact, whose path is the last entry of the manifest and
\* is returned with the text; the listing of the report holds every path of
\* the manifest as it was when the listing was rendered (the snapshots of the
\* same invocation and what the session wrote before), each in the group of
\* its destination category, with the length of that manifest as total.
C16_ReportPersisted ==
  ret.op = "generate_report" =>
    /\ ret.exc = "none"
    /\ written # <<>>
    /\ written[Len(written)] = File(ret.value.saved_to, ret.value.text)
    /\ Category(ret.value.saved_to) = "reports"
    /\ downloaded_files[Len(downloaded_files)] = ret.value.saved_to
    /\ \A i \in 1..(Len(written) - 1) : written[i].path \in Range(Listed)
    /\ IF Listed = <<>>
       THEN DOMAIN ret.value.text.files = {"none"}
       ELSE /\ ret.value.text.files.total = Len(Listed)
            /\ ret.value.text.files.reports = Group(Listed, "reports")
            /\ ret.value.text.files.data_files = Group(Listed, "data")
            /\ ret.value.text.files.downloads = Group(Listed, "downloads")
            /\ \A i \in 1..Len(Listed) :
                 Category(Listed[i]) \in {"reports", "data", "downloads"}

\* What download_media was run on, stated on the pages: the posts projected
\* from the posts page and the stories kept from the stories page.
MediaPosts ==
  IF GivesUser(ret.args.posts_page)
  THEN SubSeq(EdgesOf(ret.args.posts_page), 1,
              Min(ret.args.limit, Len(EdgesOf(ret.args.posts_page))))
  ELSE <<>>
StoryItems ==
  LET a == Answer(ret.args.stories_page)
  IN IF HasStatus(a, 200) /\ a.content.story /\ a.content.parses
        /\ \A i \in 1..Len(a.content.items) : ~NoCandidate(a.content.items[i])
     THEN SelectSeq(a.content.items, LAMBDA x : TruthyStr(story_info(x).url))
     ELSE <<>>
\* The statistics are rendered: the page gives the user, with every counter.
StatsPass ==
  /\ GivesUser(ret.args.profile_page)
  /\ \A e \in {"edge_followed_by", "edge_follow", "edge_owner_to_timeline_media"} :
       Count(UserOf(ret.args.profile_page), e) # None
\* The posts page does not end the download.
PostsPass == GivesUser(ret.args.posts_page) \/ ~GivesBlob(ret.args.posts_page)

\* The final answer to the fetch for the k-th item of the download.
MediaAnswer(k) == Answer(PlanScript(ret.args.plan, k))
IsMedia(f) ==
  Category(f.path) = "downloads" /\ f.path.name.name \in {"profile_picture", "post", "story"}
\* The position, among the items, of the item a media file comes from.
FetchOf(f) ==
  CASE f.path.name.name = "profile_picture" -> 1
    [] f.path.name.name = "post" -> 1 + f.path.name.number
    [] f.path.name.name = "story" -> 1 + Len(MediaPosts) + f.path.name.number
PostFile(i, node) ==
  Path(TargetDir("posts"),
       [name |-> "post", number |-> i,
        ext |-> IF "is_video" \in DOMAIN node /\ node.is_video.v THEN "mp4" ELSE "jpg"])
Wrote(path) == \E j \in 1..Len(written) : written[j].path = path
HasUrl(node) == "display_url" \in DOMAIN node /\ node.display_url.v # ""

\* C17: download_media writes a media file (profile picture, post, story) and
\* appends its path to the manifest only when the fetch of its url ended with
\* a response of status 200, whose body the file holds; on any other outcome
\* of the fetch nothing is written for the item, no exception leaves
\* download_media, and the download goes on: the post at position i of the
\* projected posts gets the file numbered i exactly when its fetch gave a 200,
\* whatever the fetches before it gave, and the download reaches its end.
C17_MediaOnlyOn200 ==
  ret.op = "download_media" =>
    /\ ret.exc = "none"
    /\ \A j \in 1..Len(written) :
         IsMedia(written[j]) =>
           /\ HasStatus(MediaAnswer(FetchOf(written[j])), 200)
           /\ written[j].data = MediaAnswer(FetchOf(written[j])).content
           /\ written[j].path \in Range(downloaded_files)
           /\ written[j].path \in Range(ret.value.downloaded)
    /\ (StatsPass /\ PostsPass) =>
         /\ ret.value.caught = "none"
         /\ \A i \in 1..Len(MediaPosts) :
              Wrote(PostFile(i, MediaPosts[i].node))
                <=> (HasUrl(MediaPosts[i].node) /\ HasStatus(MediaAnswer(1 + i), 200))
         /\ Cardinality({j \in 1..Len(written) :
                           IsMedia(written[j]) /\ written[j].path.name.name = "story"})
              = Cardinality({i \in 1..Len(StoryItems) :
                               HasStatus(MediaAnswer(1 + Len(MediaPosts) + i), 200)})
         /\ Wrote(Path(TargetDir("highlights"), FileName("highlights_info", "txt")))

\* the picture, the second and third posts and the stories give no file, the
\* fourth post keeps its number
C17_Witness ==
  /\ ret.op = "download_media"
  /\ StatsPass /\ PostsPass
  /\ Len(MediaPosts) = 4
  /\ ~HasStatus(MediaAnswer(1), 200)
  /\ ~HasStatus(MediaAnswer(3), 200)
  /\ Wrote(PostFile(1, MediaPosts[1].node))
  /\ ~Wrote(PostFile(2, MediaPosts[2].node))
  /\ Wrote(PostFile(4, MediaPosts[4].node))
  /\ Len(StoryItems) = 2
  /\ \A j \in 1..Len(written) : IsMedia(written[j]) => written[j].path.name.name = "post"
  /\ Wrote(Path(TargetDir("stories"), FileName("stories_analysis", "txt")))

====
